---- MODULE Spec2Model ----
(***************************************************************************)
(* Model of the SWI-over-UART transport of src/src/ecc.rs: the bit codec   *)
(* (encode_uart_to_swi / decode_swi_to_uart), the frame exchange           *)
(* (send_recv_buf, send_buf, recv_buf), the wake/sleep sequencing, the      *)
(* command retry engine (send_command_retries) and the two-phase sign.      *)
(***************************************************************************)
EXTENDS Integers, Sequences, FiniteSets, TLC

(***************************************************************************)
(* Bounds of the model.                                                    *)
(***************************************************************************)
\* longest logical byte sequence handed to the codec
MaxLen == 2
\* largest `retries` argument of send_command_retries that is explored
MaxRetries == 2
\* logical bytes that fit the receive buffer: ATCA_CMD_SIZE_MAX / 8
FrameMax == 3

(***************************************************************************)
(* Program constants.                                                      *)
(***************************************************************************)
RECV_RETRIES == 2
CMD_RETRIES == 10
SIGN_ATTEMPTS == 4
\* crate::constants::ATCA_CMD_SIZE_MAX (physical bytes of the receive buffer)
ATCA_CMD_SIZE_MAX == 8 * FrameMax
TRANSMIT_FLAG == 136
SYM_ZERO == 253
SYM_ONE == 255

(***************************************************************************)
(* u8 arithmetic used by the codec.                                        *)
(***************************************************************************)
RECURSIVE BitAnd(_, _)
BitAnd(a, b) ==
    IF a = 0 \/ b = 0 THEN 0
    ELSE (a % 2) * (b % 2) + 2 * BitAnd(a \div 2, b \div 2)

Shl(v, k) == (v * (2 ^ k)) % 256

Shr(v, k) == v \div (2 ^ k)

\* byte ^= 1
Xor1(b) == IF b % 2 = 0 THEN b + 1 ELSE b - 1

RotateRight1_LeftMut(b) == ((b * 2) % 256) + (b \div 128)

\* u8::rotate_right(1)
RotateRight1(b) == (b \div 2) + (b % 2) * 128

(***************************************************************************)
(* encode_uart_to_swi: one physical byte per logical bit, bit_index 0..7.  *)
(***************************************************************************)
EncodeSymbol_MsbFirstMut(byte, bit_index) ==
    IF Shr(BitAnd(Shl(1, 7 - bit_index), byte), 7 - bit_index) = 0
    THEN SYM_ZERO ELSE SYM_ONE

EncodeSymbol(byte, bit_index) ==
    IF Shr(BitAnd(Shl(1, bit_index), byte), bit_index) = 0 THEN SYM_ZERO ELSE SYM_ONE

RECURSIVE EncodeByte(_, _)
EncodeByte(byte, bit_index) ==
    IF bit_index = 8 THEN << >>
    ELSE <<EncodeSymbol(byte, bit_index)>> \o EncodeByte(byte, bit_index + 1)

RECURSIVE encode_uart_to_swi(_)
encode_uart_to_swi(uart_msg) ==
    IF uart_msg = << >> THEN << >>
    ELSE EncodeByte(Head(uart_msg), 0) \o encode_uart_to_swi(Tail(uart_msg))

(***************************************************************************)
(* decode_swi_to_uart: clear, the assertion, then 8 samples per byte.      *)
(***************************************************************************)
DecodeAsserts(swi_msg) == Len(swi_msg) % 8 = 0

SampleIsOne_TopBitMut(bit) == bit = 127 \/ bit = 126 \/ bit = 255

SampleIsOne_Only7FMut(bit) == bit = 127

SampleIsOne(bit) == bit = 127 \/ bit = 126

RECURSIVE DecodeSamples(_, _)
DecodeSamples(bit_slice, byte) ==
    IF bit_slice = << >> THEN byte
    ELSE DecodeSamples(Tail(bit_slice),
                       RotateRight1(IF SampleIsOne(Head(bit_slice))
                                    THEN Xor1(byte) ELSE byte))

Zeros(n) == [i \in 1..n |-> 0]

\* BytesMut::resize(new_len, value)
Resize(s, new_len, value) ==
    [i \in 1..new_len |-> IF i <= Len(s) THEN s[i] ELSE value]

\* decode_swi_to_uart(swi_msg, uart_msg) when its assertion holds:
\* uart_msg.clear(), uart_msg.resize(len / 8, 0), then the loop over
\* uart_msg.iter_mut()
DecodeInto(swi_msg, uart_msg) ==
    LET cleared == SubSeq(uart_msg, 1, 0)
        sized == Resize(cleared, Len(swi_msg) \div 8, 0)
    IN  [i \in 1..Len(sized) |->
            DecodeSamples(SubSeq(swi_msg, 8 * (i - 1) + 1, 8 * i), sized[i])]

\* decode_swi_to_uart as recv_buf and read_wake_response call it, on an
\* output buffer they have just filled with zeros
decode_swi_to_uart(swi_msg) == DecodeInto(swi_msg, Zeros(Len(swi_msg)))

\* what a 7-data-bit port delivers of a byte on the wire
SevenBit(b) == b % 128


(***************************************************************************)
(* State.  The protocol variables describe one call of the public API in   *)
(* progress (send_command_retries or sign); the c* variables are the       *)
(* codec harness.                                                          *)
(***************************************************************************)
VARIABLES
    op,           \* "none", "cmd" (send_command_retries) or "sign"
    pc,           \* position of the call in progress
    cmd,          \* command of the current send_command_retries call
    sleep,        \* its `sleep` argument
    retries,      \* its `retries` argument
    retry,        \* its loop variable
    buf,          \* its `buf`: the command frame, then the logical reply
    after,        \* what follows the 100 ms backoff: "continue" or "break"
    response,     \* EccResponse::from_bytes(&buf) of the current attempt
    result,       \* value returned by send_command_retries
    sendSize,     \* send_buf: send_size reported by the write
    drained,      \* send_buf: bytes asked of read_exact, -1 before the drain
    delayed,      \* send_recv_buf: thread::sleep(delay) has been slept
    pollRetry,    \* recv_buf: loop variable of the poll loop
    encoded_msg,  \* recv_buf: the physical receive buffer
    gotReply,     \* recv_buf: a poll read returned more than 16 bytes
    declared,     \* recv_buf: decoded_message[1] of the last decode, -1 if none
    xres,         \* outcome of the last send_recv_buf
    wakeCount,    \* send_wake calls of the current send_command_retries call
    wakeFails,    \* ... of which failed
    wakeErr,      \* error of the last failed send_wake
    wakeAck,      \* acknowledgment class read by the send_wake just made
    xchgCount,    \* command frames written in the current call
    flagCount,    \* transmit flags written in the current exchange
    readCount,    \* poll reads issued in the current exchange
    sleepCount,   \* sleep pulses written by the current call
    attempts,     \* sign: loop variable
    phase,        \* sign: "a" (nonce), "b" (sign) or "none"
    lastPhase,    \* sign: the phase call that returned last
    signSleeps,   \* sign: sleep pulses written by sign itself
    signResult,   \* value returned by sign
    cx, cphys, cout, cchan, cpc

pvars == <<op, pc, cmd, sleep, retries, retry, buf, after, response, result,
           sendSize, drained, delayed, pollRetry, encoded_msg, gotReply,
           declared, xres, wakeCount, wakeFails, wakeErr, wakeAck, xchgCount,
           flagCount, readCount, sleepCount, attempts, phase, lastPhase, signSleeps,
           signResult>>

cvars == <<cx, cphys, cout, cchan, cpc>>

vars == <<pvars, cvars>>

Min(a, b) == IF a < b THEN a ELSE b

NoResult == [kind |-> "none", err |-> "none", data |-> << >>]

Ok(bytes) == [kind |-> "Ok", err |-> "none", data |-> bytes]

\* Error::timeout()
ErrTimeout == [kind |-> "Timeout", err |-> "none", data |-> << >>]

\* Error::ecc(err)
ErrEcc(err) == [kind |-> "Ecc", err |-> err, data |-> << >>]

\* any other Error value (serial port error, from_bytes failure)
ErrOther(e) == [kind |-> "Err", err |-> e, data |-> << >>]

NoPhase == [phase |-> "none", attempt |-> -1, ok |-> FALSE]

(***************************************************************************)
(* Inputs.                                                                 *)
(***************************************************************************)
\* EccCommand::bytes_into
CmdBytes(c) == IF c = "nonce" THEN <<22>> ELSE IF c = "sign" THEN <<65>> ELSE <<48>>

\* what serial_port.write may report for a frame of n bytes
WriteResults(n) == {[ok |-> FALSE, n |-> 0], [ok |-> TRUE, n |-> n],
                    [ok |-> TRUE, n |-> n - 3]}

\* declared-length bytes the device may send
LenBytes == {0, 1, FrameMax - 1, FrameMax, FrameMax + 1, 255}

\* logical frames the device may drive on the line: flag echo, length, payload
DeviceFrames ==
    {[i \in 1..FrameMax |-> IF i = 1 THEN TRANSMIT_FLAG
                            ELSE IF i = 2 THEN l ELSE fill] :
        l \in LenBytes, fill \in {0, 165}}

\* the line as the 7-data-bit command port samples it
DeviceWire(frame) ==
    LET sym == encode_uart_to_swi(frame)
    IN  [i \in 1..Len(sym) |-> SevenBit(sym[i])]

\* byte counts a poll read may return
ReadCounts == {0, 8, 16, 17, ATCA_CMD_SIZE_MAX}

ReadResults ==
    {[ok |-> FALSE, cnt |-> 0, data |-> << >>]} \cup
    {[ok |-> TRUE, cnt |-> c, data |-> SubSeq(DeviceWire(f), 1, c)] :
        c \in ReadCounts, f \in DeviceFrames}

\* serial_port.read(&mut encoded_msg): the first cnt bytes are overwritten
ReadInto(msg, r) ==
    IF r.ok THEN [i \in 1..Len(msg) |-> IF i <= r.cnt THEN r.data[i] ELSE msg[i]]
    ELSE msg

\* EccResponse::from_bytes of a command reply: Ok(Data), Ok(Error(err)) with
\* err recoverable / ParseError / neither, or Err(e)
ResponseClasses == {"Data", "Recoverable", "ParseError", "Fatal", "Err"}

\* EccResponse::from_bytes of the wake acknowledgment
AckClasses == {"Valid", "DeviceError", "Unparsable"}

(***************************************************************************)
(* Decisions of the code, one operator per match / if.                     *)
(***************************************************************************)
\* serialport::new(..).open().unwrap_or_else(|e| { eprintln!(..);
\* std::process::exit(1) }): where the caller goes on, or the process ends
OpenPort(open_ok, next) == IF open_ok THEN next ELSE "exited"

\* read_wake_response: `?` on the transmit-flag write, then the match on
\* EccResponse::from_bytes(&decoded_msg[1..])
read_wake_response(flag_ok, ack) ==
    IF ~flag_ok THEN ErrOther("Io")
    ELSE IF ack = "Unparsable" THEN ErrOther("AckParse")
    ELSE Ok(<< >>)

\* send_wake: the result of the zero-byte write is dropped
send_wake(flag_ok, ack) == read_wake_response(flag_ok, ack)

WakeOutcome_IgnoreFailMut(w, r, n) == "proceed"

\* send_command_retries: match on the result of send_wake
WakeOutcome(w, r, n) ==
    IF w.kind = "Ok" THEN "proceed"
    ELSE IF r < n THEN "backoff"
    ELSE "return_err"

\* send_command_retries: `if retry == retries` after a failed send_recv_buf
ExchangeFailOutcome(r, n) == IF r = n THEN "break" ELSE "backoff"

ReplyOutcome_FatalRetryMut(resp, r, n) ==
    IF resp = "Data" THEN "return_ok"
    ELSE IF resp \in {"Recoverable", "Fatal"} /\ r < n THEN "backoff_continue"
    ELSE IF resp = "ParseError" /\ r < n THEN "backoff_break"
    ELSE IF resp \in {"Recoverable", "ParseError", "Fatal"} THEN "return_ecc"
    ELSE IF r < n THEN "backoff_continue"
    ELSE "return_err"

\* send_command_retries: match on EccResponse::from_bytes(&buf[..])
ReplyOutcome(resp, r, n) ==
    IF resp = "Data" THEN "return_ok"
    ELSE IF resp = "Recoverable" /\ r < n THEN "backoff_continue"
    ELSE IF resp = "ParseError" /\ r < n THEN "backoff_break"
    ELSE IF resp \in {"Recoverable", "ParseError", "Fatal"} THEN "return_ecc"
    ELSE IF r < n THEN "backoff_continue"
    ELSE "return_err"

PollOutcome_NoBreakMut(rd, r) ==
    IF rd.ok /\ rd.cnt = 8 THEN "wait"
    ELSE IF r # RECV_RETRIES THEN "continue"
    ELSE "timeout"

\* recv_buf: match on the result of the poll read
PollOutcome(rd, r) ==
    IF rd.ok /\ rd.cnt = 8 THEN "wait"
    ELSE IF rd.ok /\ rd.cnt > 16 THEN "break"
    ELSE IF r # RECV_RETRIES THEN "continue"
    ELSE "timeout"

FrameTooLong_WrongBoundMut(encoded_msg_size) == encoded_msg_size > ATCA_CMD_SIZE_MAX

\* recv_buf: `encoded_msg_size as u16 > ATCA_CMD_SIZE_MAX/8`
FrameTooLong(encoded_msg_size) == encoded_msg_size > ATCA_CMD_SIZE_MAX \div 8

\* recv_buf: decoded_message.split_to(1), then truncate(encoded_msg_size)
ReplyBody(decoded_message, encoded_msg_size) ==
    LET rest == Tail(decoded_message)
    IN  SubSeq(rest, 1, Min(encoded_msg_size, Len(rest)))

\* buf.copy_from_slice panics unless both lengths agree
CopyPanics(encoded_msg_size, body) == Len(body) # encoded_msg_size

SleepPulses_AlwaysMut(sleep_requested) == 1

\* send_command_retries: `if sleep { self.send_sleep(); }`, the number of
\* sleep pulses written after a successful send_recv_buf
SleepPulses(sleep_requested) == IF sleep_requested THEN 1 ELSE 0

DrainSize_WholeFrameMut(send_size, buf_len) == buf_len

\* send_buf: clear_rx_line.resize(send_size, 0), the length read_exact asks for
DrainSize(send_size, buf_len) == send_size

SignAfterB_RetryBMut(ok, a) ==
    IF ok THEN "sign_return" ELSE IF a < 3 THEN "sign_b" ELSE "sign_return"

SignAfterA_OneFewerMut(ok, a) ==
    IF ok THEN "sign_b" ELSE IF a < 2 THEN "sign_a" ELSE "sign_return"

\* sign: match on the result of phase (a), the nonce / digest load; the
\* value is where sign goes next
SignAfterA(ok, a) ==
    IF ok THEN "sign_b" ELSE IF a < 3 THEN "sign_a" ELSE "sign_return"

\* sign: match on the result of phase (b), the sign command
SignAfterB(ok, a) ==
    IF ok THEN "sign_return" ELSE IF a < 3 THEN "sign_a" ELSE "sign_return"

(***************************************************************************)
(* Initial state: an Ecc has been constructed, no call is in progress.     *)
(***************************************************************************)
InitProtocol ==
    /\ op = "none" /\ pc = "idle" /\ cmd = "none"
    /\ sleep = FALSE /\ retries = 0 /\ retry = 0
    /\ buf = << >> /\ after = "none" /\ response = "none" /\ result = NoResult
    /\ sendSize = 0 /\ drained = -1 /\ delayed = FALSE
    /\ pollRetry = 0 /\ encoded_msg = << >> /\ gotReply = FALSE
    /\ declared = -1 /\ xres = "none"
    /\ wakeCount = 0 /\ wakeFails = 0 /\ wakeErr = "none" /\ wakeAck = "none" /\ xchgCount = 0
    /\ flagCount = 0 /\ readCount = 0 /\ sleepCount = 0
    /\ attempts = 0 /\ phase = "none" /\ lastPhase = NoPhase
    /\ signSleeps = 0 /\ signResult = NoResult

CodecOff ==
    /\ cx = << >> /\ cphys = << >> /\ cout = << >> /\ cchan = "none" /\ cpc = "off"

Init == InitProtocol /\ CodecOff

(***************************************************************************)
(* send_command_retries                                                    *)
(***************************************************************************)
\* entry of send_command_retries(command, sleep, retries)
EnterRetryEngine(c, s, n) ==
    /\ cmd' = c /\ sleep' = s /\ retries' = n /\ retry' = 0
    /\ buf' = << >> /\ after' = "none" /\ response' = "none" /\ result' = NoResult
    /\ sendSize' = 0 /\ drained' = -1 /\ delayed' = FALSE
    /\ pollRetry' = 0 /\ encoded_msg' = << >> /\ gotReply' = FALSE
    /\ declared' = -1 /\ xres' = "none"
    /\ wakeCount' = 0 /\ wakeFails' = 0 /\ wakeErr' = "none" /\ wakeAck' = "none" /\ xchgCount' = 0
    /\ flagCount' = 0 /\ readCount' = 0 /\ sleepCount' = 0
    /\ pc' = "scr_loop"

\* a caller invokes send_command_retries directly
CallSendCommandRetries ==
    /\ pc = "idle"
    /\ \E s \in BOOLEAN, n \in 0..MaxRetries : EnterRetryEngine("generic", s, n)
    /\ op' = "cmd"
    /\ UNCHANGED <<attempts, phase, lastPhase, signSleeps, signResult, cvars>>

\* send_command(command): send_command_retries(command, true, CMD_RETRIES)
CallSendCommand ==
    /\ pc = "idle"
    /\ EnterRetryEngine("generic", TRUE, CMD_RETRIES)
    /\ op' = "cmd"
    /\ UNCHANGED <<attempts, phase, lastPhase, signSleeps, signResult, cvars>>

\* `for retry in 0..retries`, and `Err(Error::timeout())` after the loop
ScrLoop ==
    /\ pc = "scr_loop"
    /\ IF retry < retries
       THEN pc' = "scr_wake" /\ result' = result
       ELSE pc' = "scr_return" /\ result' = ErrTimeout
    /\ UNCHANGED <<op, cmd, sleep, retries, retry, buf, after, response,
                   sendSize, drained, delayed, pollRetry, encoded_msg, gotReply,
                   declared, xres, wakeCount, wakeFails, wakeErr, wakeAck, xchgCount,
                   flagCount, readCount, sleepCount, attempts, phase, lastPhase,
                   signSleeps, signResult, cvars>>

\* send_wake up to its wait: open the port at the wake parameters (or end
\* the process), write the zero byte (result dropped), thread::sleep(WAKE_DELAY)
ScrWake ==
    /\ pc = "scr_wake"
    /\ wakeCount' = wakeCount + 1
    /\ wakeAck' = "none"
    /\ \E open_ok \in BOOLEAN : pc' = OpenPort(open_ok, "wake_flag")
    /\ UNCHANGED <<op, cmd, sleep, retries, retry, buf, after, response, result,
                   sendSize, drained, delayed, pollRetry, encoded_msg, gotReply,
                   declared, xres, wakeFails, wakeErr, xchgCount,
                   flagCount, readCount, sleepCount, attempts, phase, lastPhase,
                   signSleeps, signResult, cvars>>

\* send_command_retries: the match on the result w of send_wake; on Ok
\* buf.clear() and command.bytes_into(&mut buf)
WakeReturn(w) ==
    LET out == WakeOutcome(w, retry, retries)
    IN  /\ wakeFails' = IF w.kind = "Ok" THEN wakeFails ELSE wakeFails + 1
        /\ wakeErr' = IF w.kind = "Ok" THEN wakeErr ELSE w.err
        /\ pc' = CASE out = "proceed" -> "xchg_write"
                   [] out = "backoff" -> "scr_backoff"
                   [] OTHER -> "scr_return"
        /\ after' = IF out = "backoff" THEN "continue" ELSE after
        /\ result' = IF out = "return_err" THEN w ELSE result
        /\ buf' = IF out = "proceed" THEN CmdBytes(cmd) ELSE buf

\* read_wake_response up to its wait: open the port at the command
\* parameters (or end the process), write the transmit flag with `?`,
\* thread::sleep(5 ms); a failed write returns through send_wake to the match
WakeFlag ==
    /\ pc = "wake_flag"
    /\ \E open_ok \in BOOLEAN, flag_ok \in BOOLEAN :
        IF OpenPort(open_ok, "opened") = "exited"
        THEN /\ pc' = "exited"
             /\ UNCHANGED <<wakeFails, wakeErr, after, result, buf>>
        ELSE IF flag_ok
        THEN /\ pc' = "wake_read"
             /\ UNCHANGED <<wakeFails, wakeErr, after, result, buf>>
        ELSE WakeReturn(send_wake(FALSE, "Unparsable"))
    /\ UNCHANGED <<op, cmd, sleep, retries, retry, response,
                   sendSize, drained, delayed, pollRetry, encoded_msg, gotReply,
                   declared, xres, wakeCount, wakeAck, xchgCount,
                   flagCount, readCount, sleepCount, attempts, phase, lastPhase,
                   signSleeps, signResult, cvars>>

\* read_wake_response after its wait: read (result dropped), decode,
\* from_bytes and the match; then the match of send_command_retries
WakeRead ==
    /\ pc = "wake_read"
    /\ \E ack \in AckClasses :
        /\ wakeAck' = ack
        /\ WakeReturn(send_wake(TRUE, ack))
    /\ UNCHANGED <<op, cmd, sleep, retries, retry, response,
                   sendSize, drained, delayed, pollRetry, encoded_msg, gotReply,
                   declared, xres, wakeCount, xchgCount,
                   flagCount, readCount, sleepCount, attempts, phase, lastPhase,
                   signSleeps, signResult, cvars>>

\* a failed send_recv_buf seen by send_command_retries
ExchangeFailed(e) ==
    /\ xres' = e
    /\ IF ExchangeFailOutcome(retry, retries) = "break"
       THEN pc' = "scr_return" /\ result' = ErrTimeout /\ after' = after
       ELSE pc' = "scr_backoff" /\ result' = result /\ after' = "continue"

\* send_recv_buf up to the write in send_buf: open the port (or end the
\* process), clear, encode the frame, write it
XchgWrite ==
    /\ pc = "xchg_write"
    /\ xchgCount' = xchgCount + 1
    /\ flagCount' = 0 /\ readCount' = 0 /\ gotReply' = FALSE
    /\ drained' = -1 /\ delayed' = FALSE /\ declared' = -1
    /\ encoded_msg' = << >> /\ pollRetry' = 0
    /\ wakeAck' = "none"
    /\ \E open_ok \in BOOLEAN, w \in WriteResults(Len(encode_uart_to_swi(buf))) :
        IF OpenPort(open_ok, "opened") = "exited"
        THEN /\ sendSize' = 0 /\ pc' = "exited" /\ xres' = "none"
             /\ UNCHANGED <<result, after>>
        ELSE IF w.ok
        THEN /\ sendSize' = w.n /\ pc' = "xchg_drain" /\ xres' = "none"
             /\ UNCHANGED <<result, after>>
        ELSE /\ sendSize' = 0 /\ ExchangeFailed("Io")
    /\ UNCHANGED <<op, cmd, sleep, retries, retry, buf, response,
                   wakeCount, wakeFails, wakeErr, sleepCount,
                   attempts, phase, lastPhase, signSleeps, signResult, cvars>>

\* send_buf: sleep the transmission time, read_exact the echo (result dropped)
XchgDrain ==
    /\ pc = "xchg_drain"
    /\ drained' = DrainSize(sendSize, Len(encode_uart_to_swi(buf)))
    /\ pc' = "xchg_delay"
    /\ UNCHANGED <<op, cmd, sleep, retries, retry, buf, after, response, result,
                   sendSize, delayed, pollRetry, encoded_msg, gotReply,
                   declared, xres, wakeCount, wakeFails, wakeErr, wakeAck, xchgCount,
                   flagCount, readCount, sleepCount, attempts, phase, lastPhase,
                   signSleeps, signResult, cvars>>

\* where the poll loop of recv_buf goes with loop variable r
PollLoop(r) == IF r < RECV_RETRIES THEN "recv_flag" ELSE "recv_decode"

\* send_recv_buf: thread::sleep(delay); recv_buf up to the head of its loop
XchgDelay ==
    /\ pc = "xchg_delay"
    /\ delayed' = TRUE
    /\ encoded_msg' = Zeros(ATCA_CMD_SIZE_MAX)
    /\ pollRetry' = 0
    /\ pc' = PollLoop(0)
    /\ UNCHANGED <<op, cmd, sleep, retries, retry, buf, after, response, result,
                   sendSize, drained, gotReply,
                   declared, xres, wakeCount, wakeFails, wakeErr, wakeAck, xchgCount,
                   flagCount, readCount, sleepCount, attempts, phase, lastPhase,
                   signSleeps, signResult, cvars>>

\* recv_buf: serial_port.write(&encoded_transmit_flag)?
RecvWriteFlag ==
    /\ pc = "recv_flag"
    /\ \E w \in BOOLEAN :
        IF w
        THEN /\ flagCount' = flagCount + 1 /\ pc' = "recv_read"
             /\ UNCHANGED <<result, after, xres>>
        ELSE /\ flagCount' = flagCount /\ ExchangeFailed("Io")
    /\ UNCHANGED <<op, cmd, sleep, retries, retry, buf, response,
                   sendSize, drained, delayed, pollRetry, encoded_msg, gotReply,
                   declared, wakeCount, wakeFails, wakeErr, wakeAck, xchgCount,
                   readCount, sleepCount, attempts, phase, lastPhase,
                   signSleeps, signResult, cvars>>

\* recv_buf: the settle sleep, serial_port.read(&mut encoded_msg), the match
RecvRead ==
    /\ pc = "recv_read"
    /\ readCount' = readCount + 1
    /\ \E rd \in ReadResults :
        LET out == PollOutcome(rd, pollRetry)
        IN  /\ encoded_msg' = ReadInto(encoded_msg, rd)
            /\ gotReply' = (gotReply \/ (rd.ok /\ rd.cnt > 16))
            /\ IF out = "timeout"
               THEN /\ ExchangeFailed("Timeout") /\ pollRetry' = pollRetry
               ELSE /\ pollRetry' = IF out = "break" THEN pollRetry ELSE pollRetry + 1
                    /\ pc' = IF out = "break" THEN "recv_decode"
                             ELSE PollLoop(pollRetry + 1)
                    /\ UNCHANGED <<result, after, xres>>
    /\ UNCHANGED <<op, cmd, sleep, retries, retry, buf, response,
                   sendSize, drained, delayed,
                   declared, wakeCount, wakeFails, wakeErr, wakeAck, xchgCount,
                   flagCount, sleepCount, attempts, phase, lastPhase,
                   signSleeps, signResult, cvars>>

\* recv_buf after the loop: decode, the length check, the copy into buf
RecvDecode ==
    /\ pc = "recv_decode"
    /\ IF ~DecodeAsserts(encoded_msg)
       THEN /\ pc' = "panicked"
            /\ UNCHANGED <<declared, buf, xres, result, after>>
       ELSE LET decoded_message == decode_swi_to_uart(encoded_msg)
                encoded_msg_size == decoded_message[2]
                body == ReplyBody(decoded_message, encoded_msg_size)
            IN  /\ declared' = encoded_msg_size
                /\ IF FrameTooLong(encoded_msg_size)
                   THEN ExchangeFailed("Timeout") /\ buf' = buf
                   ELSE IF CopyPanics(encoded_msg_size, body)
                   THEN /\ pc' = "panicked"
                        /\ buf' = Resize(buf, encoded_msg_size, 0)
                        /\ UNCHANGED <<xres, result, after>>
                   ELSE /\ pc' = "scr_parse"
                        /\ buf' = body
                        /\ xres' = "Ok"
                        /\ UNCHANGED <<result, after>>
    /\ UNCHANGED <<op, cmd, sleep, retries, retry, response,
                   sendSize, drained, delayed, pollRetry, encoded_msg, gotReply,
                   wakeCount, wakeFails, wakeErr, wakeAck, xchgCount,
                   flagCount, readCount, sleepCount, attempts, phase, lastPhase,
                   signSleeps, signResult, cvars>>

\* send_command_retries: EccResponse::from_bytes(&buf[..]), then
\* `if sleep { self.send_sleep() }`, whose port opening may end the process
ScrParse ==
    /\ pc = "scr_parse"
    /\ \E r \in ResponseClasses : response' = r
    /\ \E open_ok \in BOOLEAN :
        IF sleep /\ OpenPort(open_ok, "opened") = "exited"
        THEN pc' = "exited" /\ sleepCount' = sleepCount
        ELSE pc' = "scr_match" /\ sleepCount' = sleepCount + SleepPulses(sleep)
    /\ UNCHANGED <<op, cmd, sleep, retries, retry, buf, after, result,
                   sendSize, drained, delayed, pollRetry, encoded_msg, gotReply,
                   declared, xres, wakeCount, wakeFails, wakeErr, wakeAck, xchgCount,
                   flagCount, readCount, attempts, phase, lastPhase,
                   signSleeps, signResult, cvars>>

\* send_command_retries: the match on the parsed response
ScrMatch ==
    /\ pc = "scr_match"
    /\ LET out == ReplyOutcome(response, retry, retries)
       IN  /\ pc' = IF out \in {"backoff_continue", "backoff_break"}
                    THEN "scr_backoff" ELSE "scr_return"
           /\ after' = CASE out = "backoff_continue" -> "continue"
                         [] out = "backoff_break" -> "break"
                         [] OTHER -> after
           /\ result' = CASE out = "return_ok" -> Ok(buf)
                          [] out = "return_ecc" -> ErrEcc(response)
                          [] out = "return_err" -> ErrOther("Parse")
                          [] OTHER -> result
    /\ UNCHANGED <<op, cmd, sleep, retries, retry, buf, response,
                   sendSize, drained, delayed, pollRetry, encoded_msg, gotReply,
                   declared, xres, wakeCount, wakeFails, wakeErr, wakeAck, xchgCount,
                   flagCount, readCount, sleepCount, attempts, phase, lastPhase,
                   signSleeps, signResult, cvars>>

\* thread::sleep(Duration::from_millis(100)), then `continue` or `break`
ScrBackoff ==
    /\ pc = "scr_backoff"
    /\ IF after = "continue"
       THEN retry' = retry + 1 /\ pc' = "scr_loop" /\ result' = result
       ELSE retry' = retry /\ pc' = "scr_return" /\ result' = ErrTimeout
    /\ UNCHANGED <<op, cmd, sleep, retries, buf, after, response,
                   sendSize, drained, delayed, pollRetry, encoded_msg, gotReply,
                   declared, xres, wakeCount, wakeFails, wakeErr, wakeAck, xchgCount,
                   flagCount, readCount, sleepCount, attempts, phase, lastPhase,
                   signSleeps, signResult, cvars>>

\* send_command_retries returns to the caller that invoked it directly
CmdReturn ==
    /\ pc = "scr_return" /\ op = "cmd"
    /\ pc' = "done"
    /\ UNCHANGED <<op, cmd, sleep, retries, retry, buf, after, response, result,
                   sendSize, drained, delayed, pollRetry, encoded_msg, gotReply,
                   declared, xres, wakeCount, wakeFails, wakeErr, wakeAck, xchgCount,
                   flagCount, readCount, sleepCount, attempts, phase, lastPhase,
                   signSleeps, signResult, cvars>>

(***************************************************************************)
(* sign                                                                    *)
(***************************************************************************)
\* a caller invokes sign(key_slot, data)
CallSign ==
    /\ pc = "idle"
    /\ op' = "sign" /\ attempts' = 0 /\ pc' = "sign_a"
    /\ UNCHANGED <<cmd, sleep, retries, retry, buf, after, response, result,
                   sendSize, drained, delayed, pollRetry, encoded_msg, gotReply,
                   declared, xres, wakeCount, wakeFails, wakeErr, wakeAck, xchgCount,
                   flagCount, readCount, sleepCount, phase, lastPhase,
                   signSleeps, signResult, cvars>>

\* `for attempts in 0..4`: phase (a), send_command_retries(nonce, false, 1);
\* `Err(Error::Timeout)` after the loop
SignPhaseA ==
    /\ pc = "sign_a"
    /\ IF attempts < SIGN_ATTEMPTS
       THEN /\ EnterRetryEngine("nonce", FALSE, 1)
            /\ phase' = "a"
            /\ signResult' = signResult
       ELSE /\ pc' = "done" /\ signResult' = ErrTimeout /\ phase' = "none"
            /\ UNCHANGED <<cmd, sleep, retries, retry, buf, after, response,
                           result, sendSize, drained, delayed, pollRetry,
                           encoded_msg, gotReply, declared, xres, wakeCount,
                           wakeFails, wakeErr, wakeAck, xchgCount, flagCount, readCount,
                           sleepCount>>
    /\ UNCHANGED <<op, attempts, lastPhase, signSleeps, cvars>>

\* phase (b), send_command_retries(sign, true, 1)
SignPhaseB ==
    /\ pc = "sign_b"
    /\ EnterRetryEngine("sign", TRUE, 1)
    /\ phase' = "b"
    /\ UNCHANGED <<op, attempts, lastPhase, signSleeps, signResult, cvars>>

\* what sign does with the result of a phase: go on, send_sleep() (whose
\* port opening may end the process) and `continue`, or return the response
SignStep(next) ==
    /\ lastPhase' = [phase |-> phase, attempt |-> attempts,
                     ok |-> (result.kind = "Ok")]
    /\ IF next = "sign_return"
       THEN /\ pc' = "done" /\ signResult' = result
            /\ UNCHANGED <<attempts, signSleeps>>
       ELSE IF result.kind = "Ok"
       THEN /\ pc' = next
            /\ UNCHANGED <<attempts, signSleeps, signResult>>
       ELSE \E open_ok \in BOOLEAN :
              IF OpenPort(open_ok, "opened") = "exited"
              THEN /\ pc' = "exited"
                   /\ UNCHANGED <<attempts, signSleeps, signResult>>
              ELSE /\ pc' = next
                   /\ signSleeps' = signSleeps + 1
                   /\ attempts' = attempts + 1
                   /\ signResult' = signResult
    /\ UNCHANGED <<op, cmd, sleep, retries, retry, buf, after, response, result,
                   sendSize, drained, delayed, pollRetry, encoded_msg, gotReply,
                   declared, xres, wakeCount, wakeFails, wakeErr, wakeAck, xchgCount,
                   flagCount, readCount, sleepCount, phase, cvars>>

\* the match on the response of phase (a)
SignMatchA ==
    /\ pc = "scr_return" /\ op = "sign" /\ phase = "a"
    /\ SignStep(SignAfterA(result.kind = "Ok", attempts))

\* the match on the response of phase (b)
SignMatchB ==
    /\ pc = "scr_return" /\ op = "sign" /\ phase = "b"
    /\ SignStep(SignAfterB(result.kind = "Ok", attempts))

Next ==
    \/ CallSendCommandRetries
    \/ CallSendCommand
    \/ ScrLoop
    \/ ScrWake
    \/ WakeFlag
    \/ WakeRead
    \/ XchgWrite
    \/ XchgDrain
    \/ XchgDelay
    \/ RecvWriteFlag
    \/ RecvRead
    \/ RecvDecode
    \/ ScrParse
    \/ ScrMatch
    \/ ScrBackoff
    \/ CmdReturn
    \/ CallSign
    \/ SignPhaseA
    \/ SignPhaseB
    \/ SignMatchA
    \/ SignMatchB

Spec == Init /\ [][Next]_vars

(***************************************************************************)
(* The codec on its own: a logical buffer is encoded, optionally passes    *)
(* the 7-data-bit port, and is decoded.                                    *)
(***************************************************************************)
Byte == 0..255

SampleBytes == {0, 1, 128, 255}

\* a logical buffer with byte i set to b (i = 0: the buffer itself): every
\* byte value at every position, the other positions from SampleBytes
CodecInput(base, i, b) == IF i = 0 THEN base ELSE [base EXCEPT ![i] = b]

\* lengths of the physical buffers handed to the decoder on their own
RawLengths == {0, 5, 8, 8 * MaxLen}

\* sample patterns: the line low throughout, or one-samples alternating
\* with the encoder's zero symbol
RawBase(n, kind) ==
    [i \in 1..n |-> IF kind = "low" THEN 125
                    ELSE IF i % 2 = 1 THEN 126 ELSE 253]

\* a pattern with sample i set to b (i = 0: the pattern itself)
RawBuffer(n, kind, i, b) ==
    IF i = 0 THEN RawBase(n, kind) ELSE [RawBase(n, kind) EXCEPT ![i] = b]

\* what the output buffer holds before the call
PriorOutputs == {<< >>, [i \in 1..(MaxLen + 1) |-> 170]}

InitCodec ==
    /\ InitProtocol
    /\ \/ /\ \E n \in 0..MaxLen : \E base \in [1..n -> SampleBytes] :
                \E i \in 0..n, b \in Byte : cx = CodecInput(base, i, b)
          /\ cphys = << >> /\ cout = << >> /\ cchan = "direct" /\ cpc = "start"
       \/ /\ cx = << >>
          /\ \E n \in RawLengths, kind \in {"low", "mix"} :
                \E i \in 0..n, b \in Byte : cphys = RawBuffer(n, kind, i, b)
          /\ cout \in PriorOutputs
          /\ cchan = "raw" /\ cpc = "raw"

CodecEncode ==
    /\ cpc = "start"
    /\ cphys' = encode_uart_to_swi(cx)
    /\ cpc' = "encoded"
    /\ UNCHANGED <<cx, cout, cchan, pvars>>

\* the bytes come back through the port opened with DataBits::Seven
CodecChannel ==
    /\ cpc = "encoded"
    /\ cphys' = [i \in 1..Len(cphys) |-> SevenBit(cphys[i])]
    /\ cchan' = "seven"
    /\ cpc' = "received"
    /\ UNCHANGED <<cx, cout, pvars>>

CodecDecode ==
    /\ cpc \in {"encoded", "received", "raw"}
    /\ IF DecodeAsserts(cphys)
       THEN cout' = DecodeInto(cphys, cout) /\ cpc' = "decoded"
       ELSE cout' = SubSeq(cout, 1, 0) /\ cpc' = "panicked"
    /\ UNCHANGED <<cx, cphys, cchan, pvars>>

NextCodec == CodecEncode \/ CodecChannel \/ CodecDecode

SpecCodec == InitCodec /\ [][NextCodec]_vars

(***************************************************************************)
(* Properties.                                                             *)
(***************************************************************************)
AllZero(s) == \A i \in 1..Len(s) : s[i] = 0

\* bit k of a byte, least-significant bit first
BitOf(b, k) == (b \div (2 ^ k)) % 2

\* C1 (as stated): decoding the encoding of x returns exactly x, for every
\* byte value at every position; so decoding the encoding of [0x01]
\* returns [0x01].
C1_RoundTrip ==
    (cpc = "decoded" /\ cchan = "direct") => cout = cx

\* C1 (amended): decoding the encoding of x directly yields as many bytes
\* as x has, every one of them 0x00 (the decoder counts only 0x7F and 0x7E
\* as a one, the encoder emits 0xFF and 0xFD); it equals x exactly when x
\* is all zeros, and decoding the encoding of [0x01] returns [0x00].
C1_DirectDecodeIsZero ==
    (cpc = "decoded" /\ cchan = "direct") =>
        /\ Len(cout) = Len(cx)
        /\ AllZero(cout)
        /\ (cout = cx <=> AllZero(cx))

C1_Witness ==
    /\ cpc = "decoded" /\ cchan = "direct"
    /\ cx = <<1>>
    /\ cphys = <<255, 253, 253, 253, 253, 253, 253, 253>>
    /\ cout = <<0>>

\* C2: the encoding of x has exactly 8 * len(x) bytes, and the byte at
\* position 8*i+k is 0xFF when bit k of x[i] is 1 and 0xFD when it is 0,
\* least-significant bit first; the encoding of [0x01] is
\* [0xFF,0xFD,0xFD,0xFD,0xFD,0xFD,0xFD,0xFD].
C2_Encoding ==
    cpc = "encoded" =>
        /\ Len(cphys) = 8 * Len(cx)
        /\ \A i \in 1..Len(cx) : \A k \in 0..7 :
              cphys[8 * (i - 1) + k + 1] = IF BitOf(cx[i], k) = 1 THEN 255 ELSE 253
        /\ (cx = <<1>> => cphys = <<255, 253, 253, 253, 253, 253, 253, 253>>)

C2_Witness ==
    /\ cpc = "encoded"
    /\ cx = <<1, 128>>
    /\ cphys = <<255, 253, 253, 253, 253, 253, 253, 253,
                 253, 253, 253, 253, 253, 253, 253, 255>>

\* C3: when no poll read of an exchange returned more than 16 bytes,
\* recv_buf neither goes on to decode the receive buffer nor returns Ok.
C3_NoReplyIsTimeout ==
    (pc = "recv_decode" \/ xres = "Ok") => gotReply

\* C4: the step in which a poll read returns more than 16 bytes leads to
\* the decode, and from then on the exchange writes no transmit flag and
\* issues no read.
C4_PollShortCircuit ==
    [][gotReply' =>
          IF gotReply
          THEN flagCount' = flagCount /\ readCount' = readCount
          ELSE pc' = "recv_decode" /\ flagCount' = flagCount]_vars

\* the first poll read brought the reply: one poll of the budget is unused
C4_Witness ==
    /\ gotReply /\ pc = "scr_parse"
    /\ flagCount = 1 /\ readCount = 1 /\ RECV_RETRIES > 1

\* decoded_message[1] of a receive buffer
DeclaredLength(m) == decode_swi_to_uart(m)[2]

\* C5: a reply whose declared length exceeds ATCA_CMD_SIZE_MAX / 8 makes
\* recv_buf return Timeout with the caller's buffer untouched, and
\* send_command_retries returns no Ok built from it.
C5_FrameLengthEnforced ==
    /\ [][(pc = "recv_decode" /\ DeclaredLength(encoded_msg) > ATCA_CMD_SIZE_MAX \div 8)
            => /\ xres' = "Timeout"
               /\ buf' = buf
               /\ pc' \in {"scr_backoff", "scr_return"}
               /\ result'.kind # "Ok"]_vars
    /\ [](result.kind = "Ok" => declared \in 0..(ATCA_CMD_SIZE_MAX \div 8))

C5_Witness ==
    /\ pc = "scr_backoff" /\ xres = "Timeout"
    /\ declared > ATCA_CMD_SIZE_MAX \div 8
    /\ gotReply
    /\ buf = CmdBytes(cmd)

\* C6: a reply classified as a device error that is neither recoverable
\* nor ParseError makes the call return that error from that very
\* attempt, with no further wake or frame exchange.
C6_FatalSurfacesAtOnce ==
    /\ [][(pc = "scr_match" /\ response = "Fatal")
            => /\ pc' = "scr_return"
               /\ result' = ErrEcc("Fatal")
               /\ wakeCount' = wakeCount /\ xchgCount' = xchgCount
               /\ retry' = retry]_vars
    /\ [][pc = "scr_return" => pc' \in {"done", "sign_a", "sign_b", "exited"}]_vars

\* a fatal error returned from the first attempt of a call with budget left
C6_Witness ==
    /\ pc = "scr_return" /\ result = ErrEcc("Fatal")
    /\ wakeCount = 1 /\ retry + 1 < retries

\* C7: a call in which every attempt failed in a retryable way makes
\* exactly `retries` wake attempts and then returns Timeout.
C7_ExactlyRetriesThenTimeout ==
    (pc = "scr_return" /\ result.kind # "Ok" /\ result # ErrEcc("Fatal")) =>
        (wakeCount = retries /\ result = ErrTimeout)

\* a phase call of sign is in progress
InPhaseCall ==
    pc \notin {"idle", "sign_a", "sign_b", "done"}
        /\ ~(pc = "exited" /\ lastPhase.phase = phase /\ lastPhase.attempt = attempts)

\* C8: while phase (b) runs, the call that returned last is the phase (a)
\* of the same attempt and it returned Ok; phase (b) is entered only from
\* there; a failed phase (b) before the last attempt leads to phase (a),
\* unless the port of the sleep pulse cannot be opened and the process ends.
C8_SignRestartsFromA ==
    /\ []((op = "sign" /\ phase = "b" /\ InPhaseCall) =>
             lastPhase = [phase |-> "a", attempt |-> attempts, ok |-> TRUE])
    /\ [][pc' = "sign_b" =>
             (pc = "scr_return" /\ phase = "a" /\ result.kind = "Ok")]_vars
    /\ [][(pc = "scr_return" /\ op = "sign" /\ phase = "b"
             /\ result.kind # "Ok" /\ attempts < 3)
            => \/ pc' = "sign_a" /\ attempts' = attempts + 1
               \/ pc' = "exited"]_vars

\* phase (a) of the second attempt runs after phase (b) of the first failed
C8_Witness ==
    /\ op = "sign" /\ phase = "a" /\ pc = "scr_wake"
    /\ attempts = 1
    /\ lastPhase = [phase |-> "b", attempt |-> 0, ok |-> FALSE]

\* C9: when send_wake failed on every attempt, the call returns the
\* error of the failing send_wake.
C9_WakeErrorSurfaces ==
    (pc = "scr_return" /\ retries > 0 /\ wakeCount = retries
        /\ wakeFails = wakeCount) =>
        result = ErrOther(wakeErr)

\* C10: a reply classified ParseError on an attempt that is not the last
\* is followed by the backoff and a new attempt, as a recoverable one is.
C10_ParseErrorRetried ==
    (pc = "scr_backoff" /\ response = "ParseError" /\ retry + 1 < retries) =>
        after = "continue"

\* C11: send_wake returns Ok (the attempt goes on to write the command
\* frame) only if the acknowledgment parsed as a valid, non-error response.
C11_WakeAckValidated ==
    pc = "xchg_write" => wakeAck = "Valid"

\* C12: for every declared length L with 0 <= L <= ATCA_CMD_SIZE_MAX / 8,
\* the boundary included, recv_buf returns Ok and leaves in the caller's
\* buffer exactly the L decoded bytes at positions 1..L.
C12_ReplyFraming ==
    [][(pc = "recv_decode"
          /\ DeclaredLength(encoded_msg) <= ATCA_CMD_SIZE_MAX \div 8)
         => /\ pc' = "scr_parse"
            /\ xres' = "Ok"
            /\ Len(buf') = DeclaredLength(encoded_msg)
            /\ buf' = SubSeq(decode_swi_to_uart(encoded_msg), 2,
                             DeclaredLength(encoded_msg) + 1)]_vars

\* C13: a physical buffer whose length is a multiple of 8 decodes to
\* len / 8 bytes, whatever the output buffer held before, and bit k of
\* output byte i is 1 exactly when sample 8*i+k is 0x7F or 0x7E; any other
\* length trips the assertion, the output buffer already cleared.
C13_Decoding ==
    (cchan = "raw" /\ cpc \in {"decoded", "panicked"}) =>
        IF Len(cphys) % 8 = 0
        THEN /\ cpc = "decoded"
             /\ Len(cout) = Len(cphys) \div 8
             /\ \A i \in 1..Len(cout) : \A k \in 0..7 :
                   BitOf(cout[i], k) =
                       IF cphys[8 * (i - 1) + k + 1] \in {127, 126} THEN 1 ELSE 0
        ELSE cpc = "panicked" /\ cout = << >>

\* 0x7E samples at the even bit positions, 0xFF and 0xFD samples elsewhere
C13_Witness ==
    /\ cchan = "raw" /\ cpc = "decoded"
    /\ cphys = <<126, 255, 126, 253, 126, 253, 126, 253>>
    /\ cout = <<85>>

\* C19: when every physical byte of the encoding of x arrives with its top
\* bit cleared (0xFF as 0x7F, 0xFD as 0x7D), decoding returns exactly x.
C19_SevenBitRoundTrip ==
    (cpc = "decoded" /\ cchan = "seven") => cout = cx

C19_Witness ==
    /\ cpc = "decoded" /\ cchan = "seven"
    /\ cx = <<1, 128>>
    /\ cphys = <<127, 125, 125, 125, 125, 125, 125, 125,
                 125, 125, 125, 125, 125, 125, 125, 127>>
    /\ cout = <<1, 128>>

\* sign has returned an error
SignFailed == pc = "done" /\ op = "sign" /\ signResult.kind # "Ok"

\* C14 (as stated): when a phase failed on each of the 4 attempts, sign
\* returns Error::Timeout, whatever error the failing phase returned.
C14_SignExhaustionTimeout ==
    (SignFailed /\ attempts = 3) => signResult = ErrTimeout

\* C14 (amended): sign returns an error only after a phase failed on each
\* of the 4 attempts, and the error is the one the failing phase of the
\* fourth attempt returned: Timeout, or the device error when that phase
\* ended in a non-recoverable device error.
C14_SignExhaustionLastError ==
    SignFailed =>
        /\ attempts = 3 /\ signSleeps = 3
        /\ lastPhase.attempt = 3 /\ ~lastPhase.ok
        /\ signResult = result
        /\ signResult \in {ErrTimeout, ErrEcc("Fatal")}

\* phase (b) failed on the fourth attempt and sign returned its Timeout
C14_Witness ==
    /\ SignFailed /\ attempts = 3 /\ signSleeps = 3
    /\ lastPhase = [phase |-> "b", attempt |-> 3, ok |-> FALSE]
    /\ signResult = ErrTimeout

\* C15: when a phase of sign returns a non-recoverable device error, sign
\* returns that error at once, with no sleep pulse and no further attempt:
\* it does not go on to another phase call.
C15_SignFatalNotRetried ==
    [][(pc = "scr_return" /\ op = "sign" /\ result = ErrEcc("Fatal"))
         => /\ pc' \notin {"sign_a", "sign_b"}
            /\ pc' = "done" => signResult' = result
            /\ signSleeps' = signSleeps
            /\ attempts' = attempts]_vars

\* the control points inside one call of send_command_retries
EnginePcs ==
    {"scr_loop", "scr_wake", "wake_flag", "wake_read",
     "xchg_write", "xchg_drain", "xchg_delay",
     "recv_flag", "recv_read", "recv_decode", "scr_parse", "scr_match",
     "scr_backoff"}

\* C16: in send_command_retries a sleep pulse is written exactly when the
\* caller requested sleep and the attempt's frame exchange succeeded: once,
\* in the step between the successful exchange and the match that returns or
\* retries.  No other step of the call writes one (not a failed wake, not a
\* failed exchange), and a call without sleep writes none.  Only a port
\* that cannot be opened for the pulse, which ends the process, prevents it.
C16_SleepPulsePlacement ==
    [][/\ pc = "scr_parse" =>
            /\ xres = "Ok"
            /\ \/ /\ pc' = "scr_match"
                  /\ sleepCount' = sleepCount + (IF sleep THEN 1 ELSE 0)
               \/ /\ pc' = "exited" /\ sleep
                  /\ sleepCount' = sleepCount
       /\ (pc \in EnginePcs /\ pc # "scr_parse") => sleepCount' = sleepCount
       /\ pc = "scr_match" => pc' \in {"scr_backoff", "scr_return"}
       /\ pc' \in EnginePcs =>
            /\ sleepCount' <= xchgCount'
            /\ (~sleep' => sleepCount' = 0)]_vars

C16_Witness ==
    /\ op = "cmd" /\ pc = "scr_match" /\ sleep
    /\ xchgCount = 2 /\ sleepCount = 1 /\ xres = "Ok"

\* the attempt bounds of C17
C17_Bounds ==
    /\ wakeCount <= retries
    /\ xchgCount <= retries
    /\ flagCount <= RECV_RETRIES
    /\ attempts < SIGN_ATTEMPTS
    /\ (op = "sign" => retries <= 1)

\* C17: no call performs more than `retries` wakes, `retries` frame
\* exchanges, RECV_RETRIES transmit flags per exchange or 4 attempts of sign,
\* and a call in progress can always take its next step until it has
\* returned (or the process has ended on a port that cannot be opened).
C17_BoundedAndReturns ==
    /\ C17_Bounds
    /\ (pc \in {"done", "exited"} \/ ENABLED Next)

\* C18: within one frame exchange the echo drain asks for exactly the count
\* the write reported, the response delay comes after the drain, and a
\* transmit flag is written only after the write, the drain and the delay; a
\* failed write ends the exchange with an error and no transmit flag.
C18_ExchangeOrder ==
    [][/\ pc = "xchg_write" =>
            IF pc' = "xchg_drain"
            THEN drained' = -1 /\ ~delayed' /\ flagCount' = 0
            ELSE /\ \/ pc' \in {"scr_backoff", "scr_return"} /\ xres' = "Io"
                    \/ pc' = "exited"
                 /\ flagCount' = 0 /\ drained' = -1 /\ ~delayed'
       /\ pc = "xchg_drain" =>
            /\ pc' = "xchg_delay"
            /\ drained' = sendSize /\ ~delayed' /\ flagCount' = 0
       /\ pc = "xchg_delay" =>
            /\ delayed' /\ drained' = sendSize' /\ flagCount' = 0
       /\ flagCount' > flagCount =>
            /\ pc = "recv_flag"
            /\ delayed /\ drained = sendSize /\ xchgCount > 0]_vars

C18_Witness ==
    /\ pc = "recv_read" /\ flagCount = 1 /\ delayed
    /\ sendSize = Len(encode_uart_to_swi(buf)) - 3
    /\ drained = sendSize

\* C20: a command frame is written only in an attempt whose send_wake
\* returned Ok.  An attempt whose wake failed writes no command frame, no
\* transmit flag and no sleep pulse; it goes to the backoff, and from there to
\* the next attempt's wake or to the final return.
C20_WakeBeforeExchange ==
    [][/\ pc' = "xchg_write" =>
            /\ pc = "wake_read"
            /\ wakeCount' = wakeCount /\ wakeFails' = wakeFails
            /\ wakeCount > xchgCount + wakeFails
       /\ pc = "scr_wake" =>
            /\ pc' \in {"wake_flag", "exited"}
            /\ wakeCount' = wakeCount + 1
       /\ pc = "wake_flag" =>
            pc' \in {"wake_read", "scr_backoff", "scr_return", "exited"}
       /\ xchgCount' > xchgCount => pc = "xchg_write"
       /\ (pc \in {"wake_flag", "wake_read"} /\ wakeFails' > wakeFails) =>
            /\ pc' = "scr_backoff" /\ after' = "continue"
            /\ xchgCount' = xchgCount
            /\ flagCount' = flagCount
            /\ sleepCount' = sleepCount
       /\ (pc = "scr_backoff" /\ after = "continue") =>
            /\ pc' = "scr_loop"
            /\ xchgCount' = xchgCount /\ flagCount' = flagCount
            /\ sleepCount' = sleepCount
       /\ pc = "scr_loop" => pc' \in {"scr_wake", "scr_return"}
       /\ pc' \in EnginePcs => xchgCount' + wakeFails' <= wakeCount']_vars

C20_Witness ==
    /\ pc = "xchg_write" /\ wakeFails = 1 /\ wakeCount = 2 /\ xchgCount = 0
    /\ wakeAck = "Valid"

====
